---- MODULE Spec2Model ----
(***************************************************************************)
(* Model of the TE5025 driver (src/src/te5025/driver.py): a facade of      *)
(* set_* / get_* operations that validate their arguments and talk to the  *)
(* calibrator through __write_data / __get_data.                           *)
(*                                                                         *)
(* One action is one facade call, run to completion (the driver is         *)
(* single-threaded and synchronous).  The call leaves a record of what it  *)
(* did in `call` (arguments, every __write_data / __get_data invocation    *)
(* in order, the returned value, whether an exception escaped); Return    *)
(* is the caller taking the result, after which the next call may start.   *)
(*                                                                         *)
(* Texts are sequences of one-character strings.  Numbers are exact        *)
(* decimals m * 10^e.                                                      *)
(***************************************************************************)
EXTENDS Integers, Sequences, FiniteSets, TLC

VARIABLES
    connected,  \* self.__instrument_connected
    closes,     \* how many times self.__inst.close() has been invoked
    inst,       \* the calibrator's own state (function, ranges, TC type)
    call        \* the record of the facade call that just ran, or Idle

vars == <<connected, closes, inst, call>>

(***************************************************************************)
(* Bounds of the model.                                                    *)
(***************************************************************************)
\* At most this many transport operations raise during one facade call.
MaxFail == 1

(***************************************************************************)
(* Characters and texts.                                                   *)
(***************************************************************************)
Digits == <<"0", "1", "2", "3", "4", "5", "6", "7", "8", "9">>

LowerCase == <<"a", "b", "c", "d", "e", "f", "g", "h", "i", "j", "k", "l", "m",
               "n", "o", "p", "q", "r", "s", "t", "u", "v", "w", "x", "y", "z">>

UpperCase == <<"A", "B", "C", "D", "E", "F", "G", "H", "I", "J", "K", "L", "M",
               "N", "O", "P", "Q", "R", "S", "T", "U", "V", "W", "X", "Y", "Z">>

DigitVal(c) == (CHOOSE d \in 1..Len(Digits) : Digits[d] = c) - 1

\* str.upper(), character by character
UpperChar(c) ==
    IF \E i \in 1..Len(LowerCase) : LowerCase[i] = c
    THEN UpperCase[CHOOSE i \in 1..Len(LowerCase) : LowerCase[i] = c]
    ELSE c

Upper(cs) == [i \in 1..Len(cs) |-> UpperChar(cs[i])]

Zeros(k) == [i \in 1..k |-> "0"]

Abs(x) == IF x < 0 THEN -x ELSE x

\* the value v bound to a name x for use in e is written The({e : x \in {v}});
\* where steps follow one another the first step is bound outermost
The(S) == CHOOSE r \in S : TRUE

\* decimal digits of a natural number
RECURSIVE NatStr(_)
NatStr(n) == IF n < 10 THEN <<Digits[n + 1]>> ELSE NatStr(n \div 10) \o <<Digits[(n % 10) + 1]>>

\* value of a sequence of decimal digits
RECURSIVE StrNat(_)
StrNat(cs) ==
    IF cs = <<>> THEN 0
    ELSE 10 * StrNat(SubSeq(cs, 1, Len(cs) - 1)) + DigitVal(cs[Len(cs)])

AllDigits(cs) == \A i \in 1..Len(cs) : \E d \in 1..Len(Digits) : Digits[d] = cs[i]

(***************************************************************************)
(* Python values.  t is the type; s the text of a str; m, e the decimal    *)
(* m * 10^e of an int, float or bool, kept normalised (m has no trailing   *)
(* zero, 0 is 0 * 10^0) so that equal numbers are equal records.           *)
(***************************************************************************)
RECURSIVE NormM(_, _)
NormM(m, e) == IF m # 0 /\ m % 10 = 0 THEN NormM(m \div 10, e + 1) ELSE m

RECURSIVE NormE(_, _)
NormE(m, e) == IF m = 0 THEN 0 ELSE IF m % 10 = 0 THEN NormE(m \div 10, e + 1) ELSE e

PyStr(cs) == [t |-> "str", s |-> cs, m |-> 0, e |-> 0]

PyInt(i) == [t |-> "int", s |-> <<>>, m |-> NormM(i, 0), e |-> NormE(i, 0)]

PyFloat(m, e) == [t |-> "float", s |-> <<>>, m |-> NormM(m, e), e |-> NormE(m, e)]

PyBool(b) == [t |-> "bool", s |-> <<>>, m |-> IF b THEN 1 ELSE 0, e |-> 0]

PyNone == [t |-> "none", s |-> <<>>, m |-> 0, e |-> 0]

PyTrue == PyBool(TRUE)

PyFalse == PyBool(FALSE)

IsNum(x) == x.t \in {"int", "float", "bool"}

\* Python's ==
PyEq(x, y) ==
    \/ x.t = "str" /\ y.t = "str" /\ x.s = y.s
    \/ IsNum(x) /\ IsNum(y) /\ x.m = y.m /\ x.e = y.e
    \/ x.t = "none" /\ y.t = "none"

\* Python's `x in [...]`
PyIn(x, list) == \E i \in 1..Len(list) : PyEq(x, list[i])

\* Python's truth value
Truthy(x) ==
    CASE x.t = "str" -> x.s # <<>>
      [] x.t = "none" -> FALSE
      [] OTHER -> x.m # 0

\* Python's `x and y`
PyAnd(x, y) == IF Truthy(x) THEN y ELSE x

(***************************************************************************)
(* float(x), int(x) and the f-string conversion {x}.                       *)
(***************************************************************************)
\* an exception raised by a conversion
Raise == [ok |-> FALSE, m |-> 0, e |-> 0]

Unsigned(cs) == IF cs # <<>> /\ cs[1] \in {"-", "+"} THEN Tail(cs) ELSE cs

SignOf(cs) == IF cs # <<>> /\ cs[1] = "-" THEN -1 ELSE 1

DotAt(cs) == IF \E i \in 1..Len(cs) : cs[i] = "."
             THEN CHOOSE i \in 1..Len(cs) : cs[i] = "." /\ \A j \in 1..(i - 1) : cs[j] # "."
             ELSE 0

\* float() of a text: [sign] digits [. digits]; any other text raises
\* ValueError.  (Exponent forms, inf, nan and blanks are not in the inputs.)
ParseFloat(cs) ==
    The({ The({ The({
        IF ds # <<>> /\ AllDigits(ds)
        THEN The({ [ok |-> TRUE, m |-> NormM(n, -frac), e |-> NormE(n, -frac)]
                   : n \in {SignOf(cs) * StrNat(ds)},
                     frac \in {IF d = 0 THEN 0 ELSE Len(u) - d} })
        ELSE Raise
      : ds \in {IF d = 0 THEN u ELSE SubSeq(u, 1, d - 1) \o SubSeq(u, d + 1, Len(u))} })
      : d \in {DotAt(u)} })
      : u \in {Unsigned(cs)} })

\* float(x)
ToFloat(x) ==
    CASE x.t = "str" -> ParseFloat(x.s)
      [] x.t = "none" -> Raise
      [] OTHER -> [ok |-> TRUE, m |-> x.m, e |-> x.e]

\* 10^k, k >= 0
RECURSIVE Pow10(_)
Pow10(k) == IF k = 0 THEN 1 ELSE 10 * Pow10(k - 1)

\* int(x): a text must be [sign] digits; a float is truncated towards zero
ToInt(x) ==
    CASE x.t = "str" ->
            The({ IF u # <<>> /\ AllDigits(u)
                  THEN The({ [ok |-> TRUE, m |-> NormM(n, 0), e |-> NormE(n, 0)]
                             : n \in {SignOf(x.s) * StrNat(u)} })
                  ELSE Raise
                : u \in {Unsigned(x.s)} })
      [] x.t = "none" -> Raise
      [] OTHER ->
            IF x.e >= 0 THEN [ok |-> TRUE, m |-> x.m, e |-> x.e]
            ELSE The({ [ok |-> TRUE, m |-> NormM(q, 0), e |-> NormE(q, 0)]
                       : q \in {(IF x.m < 0 THEN -1 ELSE 1) * (Abs(x.m) \div Pow10(-x.e))} })

\* the value in units of 10^-4 (every compared quantity is on that grid)
Fix(x) == x.m * Pow10(x.e + 4)

\* a * 10^-4 as a number
Grid(a) == [ok |-> TRUE, m |-> NormM(a, -4), e |-> NormE(a, -4)]

\* repr() of a float m * 10^e: positional for 1e-4 <= |x| < 1e16, else
\* scientific
FloatStr(m, e) ==
    The({
        LET k == Len(ds)
            decpt == Len(ds) + e
            ex == Len(ds) + e - 1
        IN  (IF m < 0 THEN <<"-">> ELSE <<>>) \o
            (IF m = 0 THEN <<"0", ".", "0">>
             ELSE IF decpt > -4 /\ decpt <= 16
             THEN IF decpt <= 0 THEN <<"0", ".">> \o Zeros(-decpt) \o ds
                  ELSE IF decpt >= k THEN ds \o Zeros(decpt - k) \o <<".", "0">>
                  ELSE SubSeq(ds, 1, decpt) \o <<".">> \o SubSeq(ds, decpt + 1, k)
             ELSE <<ds[1]>> \o (IF k > 1 THEN <<".">> \o Tail(ds) ELSE <<>>)
                  \o <<"e", IF ex < 0 THEN "-" ELSE "+">>
                  \o (IF Abs(ex) < 10 THEN <<"0">> ELSE <<>>) \o NatStr(Abs(ex)))
      : ds \in {NatStr(Abs(m))} })

\* the text an f-string puts for {x}
Format(x) ==
    CASE x.t = "str" -> x.s
      [] x.t = "none" -> <<"N", "o", "n", "e">>
      [] x.t = "bool" -> IF x.m = 1 THEN <<"T", "r", "u", "e">>
                                   ELSE <<"F", "a", "l", "s", "e">>
      [] x.t = "int" -> (IF x.m < 0 THEN <<"-">> ELSE <<>>) \o NatStr(Abs(x.m)) \o Zeros(x.e)
      [] OTHER -> FloatStr(x.m, x.e)

\* the float a successful float() yields, as a Python value
AsFloat(f) == [t |-> "float", s |-> <<>>, m |-> f.m, e |-> f.e]

(***************************************************************************)
(* The calibrator.  Only what the driver reads back is kept: the active    *)
(* function, the voltage and current ranges (in units of 10^-4) and the    *)
(* thermocouple type.  A delivered command changes it; a query reads it.   *)
(***************************************************************************)
Cmd(verb, arg) == [verb |-> verb, arg |-> arg]

\* the instrument's range tokens and the ranges they name, in units of 10^-4
VoltTokens == << <<PyStr(<<"2", "0", "m", "V">>), 200>>,
                 <<PyStr(<<"2", "0", "0", "m", "V">>), 2000>>,
                 <<PyStr(<<"2", "V">>), 20000>>,
                 <<PyStr(<<"2", "0", "V">>), 200000>>,
                 <<PyStr(<<"2", "0", "0", "V">>), 2000000>>,
                 <<PyStr(<<"1", "k", "V">>), 10000000>> >>

CurrTokens == << <<PyStr(<<"2", "0", "0", "u", "A">>), 2>>,
                 <<PyStr(<<"2", "m", "A">>), 20>>,
                 <<PyStr(<<"2", "0", "m", "A">>), 200>>,
                 <<PyStr(<<"2", "0", "0", "m", "A">>), 2000>>,
                 <<PyStr(<<"2", "A">>), 20000>>,
                 <<PyStr(<<"2", "0", "A">>), 200000>> >>

TCLetters == {"B", "E", "J", "K", "N", "R", "S", "T"}

\* the range a range command's argument selects, or `old` if it names none
SelectRange(tokens, arg, old) ==
    IF \E i \in 1..Len(tokens) : tokens[i][1].s = arg
    THEN tokens[CHOOSE i \in 1..Len(tokens) : tokens[i][1].s = arg][2]
    ELSE The({ IF f.ok /\ f.e >= -4 /\ \E i \in 1..Len(tokens) : tokens[i][2] = Fix(f)
               THEN Fix(f)
               ELSE old
             : f \in {ParseFloat(arg)} })

\* the instrument after a delivered command
Apply(i, c) ==
    CASE c.verb \in {"FUNC DC", "func dc"} -> [i EXCEPT !.func = <<"D", "C">>]
      [] c.verb \in {"FUNC SIN", "func sin"} -> [i EXCEPT !.func = <<"S", "I", "N">>]
      [] c.verb = "VOLT:RANG" -> [i EXCEPT !.vrang = SelectRange(VoltTokens, c.arg, @)]
      [] c.verb = "CURR:RANG" -> [i EXCEPT !.crang = SelectRange(CurrTokens, c.arg, @)]
      [] c.verb = "ther:type" ->
            IF Len(c.arg) = 1 /\ UpperChar(c.arg[1]) \in TCLetters
            THEN [i EXCEPT !.tctype = <<UpperChar(c.arg[1])>>] ELSE i
      [] OTHER -> i

\* the instrument's reply to a query
Reply(i, q) ==
    CASE q.verb \in {"VOLT:RANG?", "CURR:RANG?"} ->
            Format(AsFloat(Grid(IF q.verb = "VOLT:RANG?" THEN i.vrang ELSE i.crang)))
      [] q.verb = "ther:type?" -> i.tctype
      [] q.verb = "func?" -> i.func
      [] OTHER -> <<"0">>

(***************************************************************************)
(* The transport.  A facade call threads a world w through its steps:      *)
(* w.inst the instrument, w.log every __write_data / __get_data            *)
(* invocation so far, w.oc the outcome (TRUE: succeeds, FALSE: raises) of  *)
(* each pyvisa operation of the call, w.ret the value last returned,       *)
(* w.exc whether an exception is propagating.                              *)
(***************************************************************************)
Outcomes(k) == {f \in [1..k -> BOOLEAN] : Cardinality({j \in 1..k : ~f[j]}) <= MaxFail}

Begin(oc) == [inst |-> inst, log |-> <<>>, oc |-> oc, ret |-> PyNone, exc |-> FALSE]

Ret(w, v) == [w EXCEPT !.ret = v]

Throw(w) == [w EXCEPT !.ret = PyNone, !.exc = TRUE]

Event(kind, c, wire, ok, reply) ==
    [kind |-> kind, verb |-> c.verb, arg |-> c.arg, wire |-> wire, ok |-> ok, reply |-> reply]

\* the pyvisa operations of the call so far
NWire(log) == Cardinality({j \in 1..Len(log) : log[j].wire})

\* __get_data with the connection flag as it is
get_data(w, query) ==
    IF connected
    THEN The({ [w EXCEPT !.log = Append(@, Event("query", query, TRUE, ok, reply)),
                         !.ret = IF ok THEN PyStr(reply) ELSE PyNone]
             : ok \in {w.oc[NWire(w.log) + 1]},
               reply \in {IF w.oc[NWire(w.log) + 1] THEN Reply(w.inst, query) ELSE <<>>} })
    ELSE [w EXCEPT !.log = Append(@, Event("query", query, FALSE, FALSE, <<>>)),
                   !.ret = PyNone]

\* __write_data with the connection flag as it is
write_data(w, data) ==
    IF connected
    THEN The({ [w EXCEPT !.log = Append(@, Event("write", data, TRUE, ok, <<>>)),
                         !.inst = IF ok THEN Apply(@, data) ELSE @,
                         !.ret = PyBool(ok)]
             : ok \in {w.oc[NWire(w.log) + 1]} })
    ELSE [w EXCEPT !.log = Append(@, Event("write", data, FALSE, FALSE, <<>>)),
                   !.ret = PyFalse]

(***************************************************************************)
(* Voltage and current: range, amplitude, frequency.                       *)
(***************************************************************************)
VoltRangeList ==
    << VoltTokens[1][1], VoltTokens[2][1], VoltTokens[3][1], VoltTokens[4][1],
       VoltTokens[5][1], VoltTokens[6][1],
       PyFloat(2, -2), PyFloat(2, -1), PyInt(2), PyInt(20), PyInt(200), PyInt(1000) >>

CurrRangeList ==
    << CurrTokens[1][1], CurrTokens[2][1], CurrTokens[3][1], CurrTokens[4][1],
       CurrTokens[5][1], CurrTokens[6][1],
       PyFloat(2, -4), PyFloat(2, -3), PyFloat(2, -2), PyFloat(2, -1), PyInt(2), PyInt(20) >>

\* WithinHeadroom with the comparison made strict
WithinHeadroom_strict(a, r) == 10 * Fix(a) < 11 * Fix(r)

\* a <= float(r) * 1.1.  The double product is never below the exact
\* 1.1 * r and exceeds it by at most one unit in the last place, so for a
\* and r on the 10^-4 grid the comparison is the exact one.
WithinHeadroom(a, r) == 10 * Fix(a) <= 11 * Fix(r)

Between(lo, x, hi) == lo * Pow10(4) <= Fix(x) /\ Fix(x) <= hi * Pow10(4)

\* set_voltage_range sending the current-range command
set_voltage_range_as_current(w, range) ==
    IF ~PyIn(range, VoltRangeList) THEN Ret(w, PyFalse)
    ELSE write_data(w, Cmd("CURR:RANG", Format(range)))

set_voltage_range(w, range) ==
    IF ~PyIn(range, VoltRangeList) THEN Ret(w, PyFalse)
    ELSE write_data(w, Cmd("VOLT:RANG", Format(range)))

get_voltage_range(w) == get_data(w, Cmd("VOLT:RANG?", <<>>))

get_voltage_amplitude(w) == get_data(w, Cmd("VOLT:AMPL?", <<>>))

set_voltage_amplitude(w, amplitude) ==
    The({ IF ~a.ok THEN Ret(w, PyFalse)
          ELSE IF Between(-1050, a, 1050)
          THEN The({ IF ~r.ok THEN Ret(w1, PyFalse)
                     ELSE IF WithinHeadroom(a, r)
                     THEN write_data(w1, Cmd("VOLT:AMPL", Format(AsFloat(a))))
                     ELSE Ret(w1, PyFalse)
                   : r \in {ToFloat(w1.ret)} })
          ELSE Ret(w, PyFalse)
        : a \in {ToFloat(amplitude)}, w1 \in {get_voltage_range(w)} })

set_voltage_dc(w, range, amplitude) ==
    The({ The({ The({
        Ret(w2, PyAnd(PyAnd(w1.ret, w2.ret), w3.ret))
      : w2 \in {set_voltage_amplitude(w1, amplitude)} })
      : w1 \in {set_voltage_range(w3, range)} })
      : w3 \in {write_data(w, Cmd("FUNC DC", <<>>))} })

set_current_range(w, range) ==
    IF ~PyIn(range, CurrRangeList) THEN Ret(w, PyFalse)
    ELSE write_data(w, Cmd("CURR:RANG", Format(range)))

get_current_range(w) == get_data(w, Cmd("CURR:RANG?", <<>>))

get_current_amplitude(w) == get_data(w, Cmd("CURR:AMPL?", <<>>))

set_current_amplitude(w, amplitude) ==
    The({ IF ~a.ok THEN Ret(w, PyFalse)
          ELSE IF Between(-22, a, 22)
          THEN The({ IF ~r.ok THEN Ret(w1, PyFalse)
                     ELSE IF WithinHeadroom(a, r)
                     THEN write_data(w1, Cmd("CURR:AMPL", Format(AsFloat(a))))
                     ELSE Ret(w1, PyFalse)
                   : r \in {ToFloat(w1.ret)} })
          ELSE Ret(w, PyFalse)
        : a \in {ToFloat(amplitude)}, w1 \in {get_current_range(w)} })

set_current_dc(w, range, amplitude) ==
    The({ The({ The({
        Ret(w2, PyAnd(PyAnd(w1.ret, w2.ret), w3.ret))
      : w2 \in {set_current_amplitude(w1, amplitude)} })
      : w1 \in {set_current_range(w3, range)} })
      : w3 \in {write_data(w, Cmd("FUNC DC", <<>>))} })

\* falls off the end (returns None) when the frequency is out of (0, 20000]
set_acv_frequency(w, frequency) ==
    The({ IF ~f.ok THEN Ret(w, PyFalse)
          ELSE IF Fix(f) > 0 /\ Fix(f) <= 20000 * Pow10(4)
          THEN write_data(w, Cmd("FREQ", Format(PyInt(Fix(f) \div Pow10(4)))))
          ELSE Ret(w, PyNone)
        : f \in {ToInt(frequency)} })

get_acv_frequency(w) == get_data(w, Cmd("FREQ?", <<>>))

set_voltage_ac(w, range, amplitude, frequency) ==
    The({ The({ The({ The({
        Ret(w2, PyAnd(PyAnd(PyAnd(w1.ret, w2.ret), w3.ret), w4.ret))
      : w2 \in {set_voltage_amplitude(w1, amplitude)} })
      : w1 \in {set_voltage_range(w4, range)} })
      : w4 \in {set_acv_frequency(w3, frequency)} })
      : w3 \in {write_data(w, Cmd("FUNC SIN", <<>>))} })

set_current_ac(w, range, amplitude, frequency) ==
    The({ The({ The({ The({
        Ret(w2, PyAnd(PyAnd(PyAnd(w1.ret, w2.ret), w3.ret), w4.ret))
      : w2 \in {set_current_amplitude(w1, amplitude)} })
      : w1 \in {set_current_range(w4, range)} })
      : w4 \in {set_acv_frequency(w3, frequency)} })
      : w3 \in {write_data(w, Cmd("FUNC SIN", <<>>))} })

(***************************************************************************)
(* Housekeeping and the plain get_* operations.                            *)
(***************************************************************************)
get_info(w) == get_data(w, Cmd("*IDN?", <<>>))

clear_error(w) == write_data(w, Cmd("*CLS", <<>>))

get_error(w) == get_data(w, Cmd("SYST:ERR?", <<>>))

get_error_count(w) == get_data(w, Cmd("SYST:ERR:COUN?", <<>>))

set_remote(w) == write_data(w, Cmd("SYST:REM", <<>>))

set_local(w) == write_data(w, Cmd("SYST:LOC", <<>>))

get_internal_temperature(w) ==
    get_data(write_data(w, Cmd("unit:temp c", <<>>)), Cmd("syst:mod:vs:temp?", <<>>))

output_enable(w) == write_data(w, Cmd("OUTP ON", <<>>))

\* output_disable sending nothing
output_disable_skipped(w) == w

output_disable(w) == write_data(w, Cmd("OUTP OFF", <<>>))

\* sends the query with __write_data: the result is the send status
get_output_status(w) == write_data(w, Cmd("OUTP?", <<>>))

(***************************************************************************)
(* Fixed resistance, capacitance, inductance, conductance.                 *)
(***************************************************************************)
ResistanceList ==
    << PyInt(0), PyInt(1), PyInt(10), PyInt(100), PyInt(1000), PyFloat(1, 4), PyFloat(1, 5),
       PyFloat(1, 6), PyFloat(1, 7), PyFloat(1, 8), PyFloat(1, 9), PyStr(<<"0", "r">>),
       PyStr(<<"1", "r">>), PyStr(<<"1", "0", "r">>), PyStr(<<"1", "0", "0", "r">>),
       PyStr(<<"1", "k", "r">>), PyStr(<<"1", "0", "k", "r">>),
       PyStr(<<"1", "0", "0", "k", "r">>), PyStr(<<"1", "m", "r">>),
       PyStr(<<"1", "0", "m", "r">>), PyStr(<<"1", "0", "0", "m", "r">>),
       PyStr(<<"1", "g", "r">>) >>

CapacitanceList ==
    << PyFloat(1, -9), PyFloat(1, -8), PyFloat(1, -7), PyFloat(1, -6), PyFloat(1, -5),
       PyFloat(1, -4), PyStr(<<"1", "n", "f">>), PyStr(<<"1", "0", "n", "f">>),
       PyStr(<<"1", "0", "0", "n", "f">>), PyStr(<<"1", "u", "f">>),
       PyStr(<<"1", "0", "u", "f">>), PyStr(<<"1", "0", "0", "u", "f">>) >>

InductanceList ==
    << PyFloat(1, -3), PyFloat(19, -4), PyFloat(5, -3), PyFloat(10, -3), PyFloat(19, -3),
       PyFloat(5, -2), PyFloat(1, -1), PyFloat(19, -2), PyFloat(5, -1), PyInt(1), PyInt(10),
       PyStr(<<"1", "m", "h">>), PyStr(<<"1", ".", "9", "m", "h">>), PyStr(<<"5", "m", "h">>),
       PyStr(<<"1", "0", "m", "h">>), PyStr(<<"1", "9", "m", "h">>),
       PyStr(<<"5", "0", "m", "h">>), PyStr(<<"1", "0", "0", "m", "h">>),
       PyStr(<<"1", "9", "0", "m", "h">>), PyStr(<<"5", "0", "0", "m", "h">>),
       PyStr(<<"1", "h">>), PyStr(<<"1", "0", "h">>) >>

ConductanceList ==
    << PyFloat(1, -9), PyFloat(1, -8), PyFloat(1, -7), PyFloat(1, -6), PyFloat(1, -5),
       PyFloat(1, -4), PyFloat(1, -3), PyFloat(1, -2), PyFloat(1, -1), PyInt(1),
       PyStr(<<"1", "n", "s">>), PyStr(<<"1", "0", "n", "s">>),
       PyStr(<<"1", "0", "0", "n", "s">>), PyStr(<<"1", "u", "s">>),
       PyStr(<<"1", "0", "u", "s">>), PyStr(<<"1", "0", "0", "u", "s">>),
       PyStr(<<"1", "m", "s">>), PyStr(<<"1", "0", "m", "s">>),
       PyStr(<<"1", "0", "0", "m", "s">>), PyStr(<<"1", "s">>) >>

set_fixed_resistance(w, resistance) ==
    IF PyIn(resistance, ResistanceList)
    THEN write_data(w, Cmd("RES", Format(resistance)))
    ELSE Ret(w, PyFalse)

get_fixed_resistance(w) == get_data(w, Cmd("RES?", <<>>))

set_arbitrary_resistance(w, resistance) == write_data(w, Cmd("SRES", Format(resistance)))

get_arbitrary_resistance(w) == get_data(w, Cmd("SRES?", <<>>))

\* set_capacitance without its membership test
set_capacitance_unchecked(w, capacitance) == write_data(w, Cmd("CAP", Format(capacitance)))

set_capacitance(w, capacitance) ==
    IF PyIn(capacitance, CapacitanceList)
    THEN write_data(w, Cmd("CAP", Format(capacitance)))
    ELSE Ret(w, PyFalse)

get_capacitance(w) == get_data(w, Cmd("CAP?", <<>>))

set_inductance(w, inductance) ==
    IF PyIn(inductance, InductanceList)
    THEN write_data(w, Cmd("IND", Format(inductance)))
    ELSE Ret(w, PyFalse)

get_inductance(w) == get_data(w, Cmd("IND?", <<>>))

set_conductance(w, conductance) ==
    IF PyIn(conductance, ConductanceList)
    THEN write_data(w, Cmd("COND", Format(conductance)))
    ELSE Ret(w, PyFalse)

get_conductance(w) == get_data(w, Cmd("COND?", <<>>))

(***************************************************************************)
(* RTD and thermocouple simulation.                                        *)
(***************************************************************************)
\* the temperature is compared as given: a text against a number raises
\* TypeError, a unit that is no text has no upper(); both are caught
set_RTD_temperature(w, temperature, unit) ==
    IF unit.t # "str" THEN Ret(w, PyFalse)
    ELSE IF Upper(unit.s) \notin {<<"C">>, <<"K">>, <<"F">>} THEN Ret(w, PyFalse)
    ELSE IF ~IsNum(temperature) THEN Ret(w, PyFalse)
    ELSE IF Upper(unit.s) = <<"C">> /\ Between(-180, temperature, 850)
    THEN write_data(w, Cmd("RTD", Format(temperature) \o <<"C">>))
    ELSE IF Upper(unit.s) = <<"K">> /\ 931500 <= Fix(temperature) /\ Fix(temperature) <= 11231500
    THEN write_data(w, Cmd("RTD", Format(temperature) \o <<"K">>))
    ELSE IF Upper(unit.s) = <<"F">> /\ Between(-292, temperature, 1562)
    THEN write_data(w, Cmd("RTD", Format(temperature) \o <<"F">>))
    ELSE Ret(w, PyFalse)

get_RTD_temperature(w) == get_data(w, Cmd("RTD?", <<>>))

TCTypeList ==
    << PyStr(<<"B">>), PyStr(<<"E">>), PyStr(<<"J">>), PyStr(<<"K">>), PyStr(<<"N">>),
       PyStr(<<"R">>), PyStr(<<"S">>), PyStr(<<"T">>) >>

\* a type that is no text has no upper(): AttributeError, caught
set_TC_type(w, type) ==
    IF type.t # "str" THEN Ret(w, PyFalse)
    ELSE IF PyIn(PyStr(Upper(type.s)), TCTypeList)
    THEN write_data(w, Cmd("ther:type", Format(type)))
    ELSE Ret(w, PyFalse)

get_TC_type(w) == get_data(w, Cmd("ther:type?", <<>>))

\* the closed interval of a thermocouple type, or the empty interval
TCLow(type) ==
    CASE type = <<"J">> -> -210 [] type = <<"K">> -> -200 [] type = <<"T">> -> -200
      [] type = <<"R">> -> -50 [] type = <<"S">> -> -50 [] type = <<"B">> -> 100
      [] type = <<"N">> -> -200 [] type = <<"E">> -> -200 [] OTHER -> 1

\* TCHigh with type J given type K's upper end
TCHigh_J_as_K(type) ==
    CASE type = <<"J">> -> 1250 [] type = <<"K">> -> 1250 [] type = <<"T">> -> 400
      [] type = <<"R">> -> 1750 [] type = <<"S">> -> 1750 [] type = <<"B">> -> 1800
      [] type = <<"N">> -> 1300 [] type = <<"E">> -> 1000 [] OTHER -> 0

TCHigh(type) ==
    CASE type = <<"J">> -> 1200 [] type = <<"K">> -> 1250 [] type = <<"T">> -> 400
      [] type = <<"R">> -> 1750 [] type = <<"S">> -> 1750 [] type = <<"B">> -> 1800
      [] type = <<"N">> -> 1300 [] type = <<"E">> -> 1000 [] OTHER -> 0

\* None.upper() on an unreadable type raises AttributeError, caught
set_TC_temperature(w, temperature) ==
    The({ IF ~t.ok THEN Ret(w, PyFalse)
          ELSE IF w1.ret.t # "str" THEN Ret(w1, PyFalse)
          ELSE IF Between(TCLow(Upper(w1.ret.s)), t, TCHigh(Upper(w1.ret.s)))
          THEN write_data(w1, Cmd("ther", Format(AsFloat(t))))
          ELSE Ret(w1, PyFalse)
        : t \in {ToFloat(temperature)}, w1 \in {get_TC_type(w)} })

get_TC_temperature(w) == get_data(w, Cmd("ther?", <<>>))

set_TC(w, temperature, type) ==
    The({ The({
        Ret(w2, PyAnd(w1.ret, w2.ret))
      : w2 \in {set_TC_temperature(w1, temperature)} })
      : w1 \in {set_TC_type(w, type)} })

(***************************************************************************)
(* Oscilloscope timing.                                                    *)
(***************************************************************************)
OscFrequencyList ==
    << PyFloat(1, -1), PyFloat(2, -1), PyFloat(5, -1), PyInt(1), PyInt(2), PyInt(5), PyInt(10),
       PyInt(20), PyInt(50), PyInt(100), PyInt(200), PyInt(500), PyFloat(1, 3), PyFloat(2, 3),
       PyFloat(5, 3), PyFloat(1, 4), PyFloat(2, 4), PyFloat(5, 4), PyFloat(1, 5),
       PyFloat(2, 5), PyFloat(5, 5), PyFloat(1, 6), PyFloat(2, 6), PyFloat(5, 6),
       PyFloat(1, 7), PyFloat(2, 7), PyFloat(5, 7), PyFloat(1, 8) >>

OscPeriodList ==
    << PyFloat(1, -8), PyFloat(2, -8), PyFloat(5, -8), PyFloat(1, -7), PyFloat(2, -7),
       PyFloat(5, -7), PyFloat(1, -6), PyFloat(2, -6), PyFloat(5, -6), PyFloat(1, -5),
       PyFloat(2, -5), PyFloat(5, -5), PyFloat(1, -4), PyFloat(2, -4), PyFloat(5, -4),
       PyFloat(1, -3), PyFloat(2, -3), PyFloat(5, -3), PyFloat(1, -2), PyFloat(2, -2),
       PyFloat(5, -2), PyFloat(1, -1), PyFloat(2, -1), PyFloat(5, -1), PyInt(1), PyInt(2),
       PyInt(5), PyInt(10) >>

\* the send status is dropped: the call returns None unless float() raised
set_oscilloscope_frequency(w, frequency) ==
    The({ IF ~f.ok THEN Ret(w, PyFalse)
          ELSE IF PyIn(AsFloat(f), OscFrequencyList)
          THEN Ret(write_data(w, Cmd("puls:sfr", Format(AsFloat(f)))), PyNone)
          ELSE Ret(w, PyNone)
        : f \in {ToFloat(frequency)} })

get_oscilloscope_frequency(w) == get_data(w, Cmd("puls:sfr?", <<>>))

set_oscilloscope_period(w, period) ==
    The({ IF ~f.ok THEN Ret(w, PyFalse)
          ELSE IF PyIn(AsFloat(f), OscPeriodList)
          THEN Ret(write_data(w, Cmd("puls:sper", Format(AsFloat(f)))), PyNone)
          ELSE Ret(w, PyNone)
        : f \in {ToFloat(period)} })

get_oscilloscope_period(w) == get_data(w, Cmd("puls:sper?", <<>>))

(***************************************************************************)
(* AC and DC power.                                                        *)
(***************************************************************************)
\* VoltRangFor with every breakpoint excluded from its range
VoltRangFor_strict(v) ==
    IF Fix(v) < 220 THEN PyFloat(2, -2)
    ELSE IF Fix(v) < 2200 THEN PyFloat(2, -1)
    ELSE IF Fix(v) < 22000 THEN PyInt(2)
    ELSE IF Fix(v) < 220000 THEN PyInt(20)
    ELSE IF Fix(v) < 2200000 THEN PyInt(200)
    ELSE IF Fix(v) < 10500000 THEN PyInt(1000)
    ELSE PyNone

\* VoltRangFor choosing the smallest range that holds 1.1 times the voltage
VoltRangFor_scaled(v) ==
    IF 11 * Fix(v) <= 10 * 200 THEN PyFloat(2, -2)
    ELSE IF 11 * Fix(v) <= 10 * 2000 THEN PyFloat(2, -1)
    ELSE IF 11 * Fix(v) <= 10 * 20000 THEN PyInt(2)
    ELSE IF 11 * Fix(v) <= 10 * 200000 THEN PyInt(20)
    ELSE IF 11 * Fix(v) <= 10 * 2000000 THEN PyInt(200)
    ELSE IF Fix(v) <= 10500000 THEN PyInt(1000)
    ELSE PyNone

\* the breakpoint tables; None stands for the `else: return False` branch
VoltRangFor(v) ==
    IF Fix(v) <= 220 THEN PyFloat(2, -2)
    ELSE IF Fix(v) <= 2200 THEN PyFloat(2, -1)
    ELSE IF Fix(v) <= 22000 THEN PyInt(2)
    ELSE IF Fix(v) <= 220000 THEN PyInt(20)
    ELSE IF Fix(v) <= 2200000 THEN PyInt(200)
    ELSE IF Fix(v) <= 10500000 THEN PyInt(1000)
    ELSE PyNone

CurrentRangFor(c) ==
    IF Fix(c) <= 22000 THEN PyInt(2)
    ELSE IF Fix(c) <= 220000 THEN PyInt(20)
    ELSE PyNone

set_ac_power(w, voltage, current, frequency, phase) ==
    The({ The({ The({ The({ The({ The({ The({
        IF ~(v.ok /\ c.ok /\ f.ok /\ ph.ok) THEN Ret(w0, PyFalse)
        ELSE IF volt_rang = PyNone \/ current_rang = PyNone THEN Ret(w0, PyFalse)
        ELSE IF ~Between(-90, ph, 90) THEN Ret(w3, PyFalse)
        ELSE IF ~Between(45, f, 400) THEN Ret(w4, PyFalse)
        ELSE Ret(w5, PyAnd(PyAnd(PyAnd(PyAnd(PyAnd(wf.ret, w1.ret), w2.ret), w3.ret),
                                 w4.ret), w5.ret))
      : w5 \in {write_data(w4, Cmd("freq", Format(AsFloat(f))))} })
      : w4 \in {write_data(w3, Cmd("pow:phase", Format(AsFloat(ph))))} })
      : w3 \in {write_data(w2, Cmd("UNIT:PHAS DEG", <<>>))} })
      : w2 \in {write_data(w1, Cmd("pow", Format(AsFloat(v)) \o <<",">> \o Format(AsFloat(c))))} })
      : w1 \in {write_data(wf, Cmd("pow:rang", Format(volt_rang) \o <<",">> \o Format(current_rang)))} })
      : wf \in {write_data(w0, Cmd("func sin", <<>>))},
        volt_rang \in {VoltRangFor(v)}, current_rang \in {CurrentRangFor(c)} })
      : w0 \in {output_disable(w)}, v \in {ToFloat(voltage)}, c \in {ToFloat(current)},
        f \in {ToFloat(frequency)}, ph \in {ToFloat(phase)} })

set_dc_power(w, voltage, current) ==
    The({ The({ The({ The({
        IF ~(v.ok /\ c.ok) THEN Ret(w0, PyFalse)
        ELSE IF volt_rang = PyNone \/ current_rang = PyNone THEN Ret(w0, PyFalse)
        ELSE Ret(w2, PyAnd(PyAnd(wf.ret, w1.ret), w2.ret))
      : w2 \in {write_data(w1, Cmd("pow", Format(AsFloat(v)) \o <<",">> \o Format(AsFloat(c))))} })
      : w1 \in {write_data(wf, Cmd("pow:rang", Format(volt_rang) \o <<",">> \o Format(current_rang)))} })
      : wf \in {write_data(w0, Cmd("func dc", <<>>))},
        volt_rang \in {VoltRangFor(v)}, current_rang \in {CurrentRangFor(c)} })
      : w0 \in {output_disable(w)}, v \in {ToFloat(voltage)}, c \in {ToFloat(current)} })

ErrorSentinel == PyStr(<<"e", "r", "r", "o", "r">>)

\* get_ac_power / get_dc_power: `mode` is the function the call expects.
\* None.upper() on an unreadable function, or upper() of a unit that is no
\* text, raises AttributeError, which nothing catches
get_power(w, mode, unit) ==
    The({ IF w1.ret.t # "str" THEN Throw(w1)
          ELSE IF Upper(w1.ret.s) = mode
          THEN IF unit.t # "str" THEN Throw(w1)
               ELSE IF Upper(unit.s) \in {<<"W", "A", "T", "T">>, <<"V", "A">>}
               THEN get_data(write_data(w1, Cmd("unit:pow", Format(unit))),
                             Cmd("pow:pow?", <<>>))
               ELSE Ret(w1, ErrorSentinel)
          ELSE Ret(w1, ErrorSentinel)
        : w1 \in {get_data(w, Cmd("func?", <<>>))} })

get_ac_power(w, unit) == get_power(w, <<"S", "I", "N">>, unit)

\* get_dc_power expecting the function SIN
get_dc_power_expecting_sin(w, unit) == get_power(w, <<"S", "I", "N">>, unit)

get_dc_power(w, unit) == get_power(w, <<"D", "C">>, unit)

get_ac_power_parameters(w) ==
    The({ The({ The({ The({
        IF w1.ret.t # "str" THEN Throw(w1)
        ELSE IF Upper(w1.ret.s) = <<"S", "I", "N">>
        THEN Ret(w4, PyStr(Format(w2.ret) \o <<",">> \o Format(w3.ret) \o <<",">>
                           \o Format(w4.ret)))
        ELSE Ret(w1, ErrorSentinel)
      : w4 \in {get_data(w3, Cmd("pow:phase?", <<>>))} })
      : w3 \in {get_data(w2, Cmd("freq?", <<>>))} })
      : w2 \in {get_data(w1, Cmd("pow?", <<>>))} })
      : w1 \in {get_data(w, Cmd("func?", <<>>))} })

get_dc_power_parameters(w) ==
    The({ IF w1.ret.t # "str" THEN Throw(w1)
          ELSE IF Upper(w1.ret.s) = <<"D", "C">>
          THEN get_data(w1, Cmd("pow?", <<>>))
          ELSE Ret(w1, ErrorSentinel)
        : w1 \in {get_data(w, Cmd("func?", <<>>))} })

(***************************************************************************)
(* The state machine: construction, one action per facade operation,       *)
(* and the caller taking the result.                                       *)
(***************************************************************************)
Idle == [op |-> "idle", args |-> <<>>, log |-> <<>>, ret |-> PyNone, exc |-> FALSE]

FuncDC == <<"D", "C">>

FuncSIN == <<"S", "I", "N">>

Instruments(F, V, C, T) == [func : F, vrang : V, crang : C, tctype : T]

\* __init__: opening the resource succeeds or fails; the instrument is in
\* whatever state it was left in
Construct(I) ==
    /\ connected \in BOOLEAN
    /\ closes = 0
    /\ inst \in I
    /\ call = Idle

\* the effect of a facade call `op(args)` that ran from world Begin(oc) to
\* world w; a call starts only when the caller holds no pending result
Do(op, args, w) ==
    /\ call' = [op |-> op, args |-> args, log |-> w.log, ret |-> w.ret, exc |-> w.exc]
    /\ inst' = w.inst
    /\ UNCHANGED <<connected, closes>>

Return ==
    /\ call # Idle
    /\ call' = Idle
    /\ UNCHANGED <<connected, closes, inst>>

\* close_connection leaving the connection flag as it was
CloseConnection_flag_kept ==
    /\ call = Idle
    /\ call' = [Idle EXCEPT !.op = "close_connection"]
    /\ closes' = IF connected THEN closes + 1 ELSE closes
    /\ UNCHANGED <<connected, inst>>

\* close_connection; self.__inst.close() is taken to return
CloseConnection ==
    /\ call = Idle
    /\ call' = [Idle EXCEPT !.op = "close_connection"]
    /\ connected' = FALSE
    /\ closes' = IF connected THEN closes + 1 ELSE closes
    /\ UNCHANGED inst

SetVoltageRange(RS) ==
    /\ call = Idle
    /\ \E oc \in Outcomes(1), r \in RS :
        Do("set_voltage_range", <<r>>, set_voltage_range(Begin(oc), r))

SetCurrentRange(RS) ==
    /\ call = Idle
    /\ \E oc \in Outcomes(1), r \in RS :
        Do("set_current_range", <<r>>, set_current_range(Begin(oc), r))

SetVoltageAmplitude(AS) ==
    /\ call = Idle
    /\ \E oc \in Outcomes(2), a \in AS :
        Do("set_voltage_amplitude", <<a>>, set_voltage_amplitude(Begin(oc), a))

SetCurrentAmplitude(AS) ==
    /\ call = Idle
    /\ \E oc \in Outcomes(2), a \in AS :
        Do("set_current_amplitude", <<a>>, set_current_amplitude(Begin(oc), a))

SetVoltageDc(RS, AS) ==
    /\ call = Idle
    /\ \E oc \in Outcomes(4), r \in RS, a \in AS :
        Do("set_voltage_dc", <<r, a>>, set_voltage_dc(Begin(oc), r, a))

SetCurrentDc(RS, AS) ==
    /\ call = Idle
    /\ \E oc \in Outcomes(4), r \in RS, a \in AS :
        Do("set_current_dc", <<r, a>>, set_current_dc(Begin(oc), r, a))

SetAcvFrequency(FS) ==
    /\ call = Idle
    /\ \E oc \in Outcomes(1), f \in FS :
        Do("set_acv_frequency", <<f>>, set_acv_frequency(Begin(oc), f))

SetVoltageAc(RS, AS, FS) ==
    /\ call = Idle
    /\ \E oc \in Outcomes(5), r \in RS, a \in AS, f \in FS :
        Do("set_voltage_ac", <<r, a, f>>, set_voltage_ac(Begin(oc), r, a, f))

SetCurrentAc(RS, AS, FS) ==
    /\ call = Idle
    /\ \E oc \in Outcomes(5), r \in RS, a \in AS, f \in FS :
        Do("set_current_ac", <<r, a, f>>, set_current_ac(Begin(oc), r, a, f))

SetFixedResistance(XS) ==
    /\ call = Idle
    /\ \E oc \in Outcomes(1), x \in XS :
        Do("set_fixed_resistance", <<x>>, set_fixed_resistance(Begin(oc), x))

SetArbitraryResistance(XS) ==
    /\ call = Idle
    /\ \E oc \in Outcomes(1), x \in XS :
        Do("set_arbitrary_resistance", <<x>>, set_arbitrary_resistance(Begin(oc), x))

SetCapacitance(XS) ==
    /\ call = Idle
    /\ \E oc \in Outcomes(1), x \in XS :
        Do("set_capacitance", <<x>>, set_capacitance(Begin(oc), x))

SetInductance(XS) ==
    /\ call = Idle
    /\ \E oc \in Outcomes(1), x \in XS :
        Do("set_inductance", <<x>>, set_inductance(Begin(oc), x))

SetConductance(XS) ==
    /\ call = Idle
    /\ \E oc \in Outcomes(1), x \in XS :
        Do("set_conductance", <<x>>, set_conductance(Begin(oc), x))

SetRTDTemperature(TS, US) ==
    /\ call = Idle
    /\ \E oc \in Outcomes(1), t \in TS, u \in US :
        Do("set_RTD_temperature", <<t, u>>, set_RTD_temperature(Begin(oc), t, u))

SetTCType(YS) ==
    /\ call = Idle
    /\ \E oc \in Outcomes(1), y \in YS :
        Do("set_TC_type", <<y>>, set_TC_type(Begin(oc), y))

SetTCTemperature(TS) ==
    /\ call = Idle
    /\ \E oc \in Outcomes(2), t \in TS :
        Do("set_TC_temperature", <<t>>, set_TC_temperature(Begin(oc), t))

SetTC(TS, YS) ==
    /\ call = Idle
    /\ \E oc \in Outcomes(3), t \in TS, y \in YS :
        Do("set_TC", <<t, y>>, set_TC(Begin(oc), t, y))

SetOscilloscopeFrequency(FS) ==
    /\ call = Idle
    /\ \E oc \in Outcomes(1), f \in FS :
        Do("set_oscilloscope_frequency", <<f>>, set_oscilloscope_frequency(Begin(oc), f))

SetOscilloscopePeriod(PS) ==
    /\ call = Idle
    /\ \E oc \in Outcomes(1), x \in PS :
        Do("set_oscilloscope_period", <<x>>, set_oscilloscope_period(Begin(oc), x))

SetAcPower(VS, CS, FPS) ==
    /\ call = Idle
    /\ \E oc \in Outcomes(7), v \in VS, c \in CS, fp \in FPS :
        Do("set_ac_power", <<v, c, fp[1], fp[2]>>,
           set_ac_power(Begin(oc), v, c, fp[1], fp[2]))

SetDcPower(VS, CS) ==
    /\ call = Idle
    /\ \E oc \in Outcomes(4), v \in VS, c \in CS :
        Do("set_dc_power", <<v, c>>, set_dc_power(Begin(oc), v, c))

GetAcPower(US) ==
    /\ call = Idle
    /\ \E oc \in Outcomes(3), u \in US :
        Do("get_ac_power", <<u>>, get_ac_power(Begin(oc), u))

GetDcPower(US) ==
    /\ call = Idle
    /\ \E oc \in Outcomes(3), u \in US :
        Do("get_dc_power", <<u>>, get_dc_power(Begin(oc), u))

GetAcPowerParameters ==
    /\ call = Idle
    /\ \E oc \in Outcomes(4) :
        Do("get_ac_power_parameters", <<>>, get_ac_power_parameters(Begin(oc)))

GetDcPowerParameters ==
    /\ call = Idle
    /\ \E oc \in Outcomes(2) :
        Do("get_dc_power_parameters", <<>>, get_dc_power_parameters(Begin(oc)))

\* the operations that only send one fixed command
Housekeeping ==
    /\ call = Idle
    /\ \E oc \in Outcomes(1) :
        \/ Do("clear_error", <<>>, clear_error(Begin(oc)))
        \/ Do("set_remote", <<>>, set_remote(Begin(oc)))
        \/ Do("set_local", <<>>, set_local(Begin(oc)))
        \/ Do("output_enable", <<>>, output_enable(Begin(oc)))
        \/ Do("output_disable", <<>>, output_disable(Begin(oc)))
        \/ Do("get_output_status", <<>>, get_output_status(Begin(oc)))

\* the get_* operations that only send one fixed query
PlainGet ==
    /\ call = Idle
    /\ \E oc \in Outcomes(2) :
        \/ Do("get_info", <<>>, get_info(Begin(oc)))
        \/ Do("get_error", <<>>, get_error(Begin(oc)))
        \/ Do("get_error_count", <<>>, get_error_count(Begin(oc)))
        \/ Do("get_internal_temperature", <<>>, get_internal_temperature(Begin(oc)))
        \/ Do("get_voltage_range", <<>>, get_voltage_range(Begin(oc)))
        \/ Do("get_voltage_amplitude", <<>>, get_voltage_amplitude(Begin(oc)))
        \/ Do("get_current_range", <<>>, get_current_range(Begin(oc)))
        \/ Do("get_current_amplitude", <<>>, get_current_amplitude(Begin(oc)))
        \/ Do("get_acv_frequency", <<>>, get_acv_frequency(Begin(oc)))
        \/ Do("get_fixed_resistance", <<>>, get_fixed_resistance(Begin(oc)))
        \/ Do("get_arbitrary_resistance", <<>>, get_arbitrary_resistance(Begin(oc)))
        \/ Do("get_capacitance", <<>>, get_capacitance(Begin(oc)))
        \/ Do("get_inductance", <<>>, get_inductance(Begin(oc)))
        \/ Do("get_conductance", <<>>, get_conductance(Begin(oc)))
        \/ Do("get_RTD_temperature", <<>>, get_RTD_temperature(Begin(oc)))
        \/ Do("get_TC_type", <<>>, get_TC_type(Begin(oc)))
        \/ Do("get_TC_temperature", <<>>, get_TC_temperature(Begin(oc)))
        \/ Do("get_oscilloscope_frequency", <<>>, get_oscilloscope_frequency(Begin(oc)))
        \/ Do("get_oscilloscope_period", <<>>, get_oscilloscope_period(Begin(oc)))

(***************************************************************************)
(* Inputs.                                                                 *)
(***************************************************************************)
SeqSet(list) == {list[i] : i \in 1..Len(list)}

Garbage == PyStr(<<"a", "b", "c">>)

\* every listed range, a float spelling of a listed one, and some that are
\* not listed
VoltRangeInputs ==
    SeqSet(VoltRangeList) \cup {PyFloat(200, -1), PyInt(30), PyStr(<<"3", "0", "V">>), PyStr(<<"2", "0", "v">>), PyNone}

CurrRangeInputs ==
    SeqSet(CurrRangeList) \cup {PyFloat(200, -1), PyInt(30), PyStr(<<"3", "0", "A">>), PyStr(<<"2", "0", "a">>), PyNone}

\* amplitudes at and just beyond 1.1 * range and the hard bounds
VoltAmplInputs ==
    {PyInt(10), PyInt(22), PyFloat(2201, -2), PyStr(<<"2", "2">>), PyStr(<<"2", "2", ".", "0", "1">>),
     PyFloat(22, -3), PyFloat(221, -4), PyInt(220), PyFloat(2200001, -4),
     PyInt(1050), PyFloat(10500001, -4), PyInt(1100), PyInt(-1050),
     PyFloat(-10500001, -4), Garbage, PyNone}

CurrAmplInputs ==
    {PyInt(1), PyInt(22), PyFloat(220001, -4), PyStr(<<"2", ".", "2">>), PyStr(<<"2", ".", "2", "0", "0", "1">>),
     PyFloat(2, -4), PyFloat(3, -4), PyFloat(22, -2), PyFloat(2201, -4),
     PyInt(-22), PyFloat(-220001, -4), Garbage, PyNone}

FrequencyInputs == {PyInt(50), PyInt(20000), PyInt(20001), PyInt(0), PyStr(<<"1", "0", "0", "0">>), Garbage}

\* the smaller sets the compound setters are run on
FewVoltRanges == {PyStr(<<"2", "0", "V">>), PyInt(1000), PyInt(30), PyStr(<<"3", "0", "V">>)}

FewCurrRanges == {PyStr(<<"2", "A">>), PyInt(20), PyInt(30), PyStr(<<"3", "0", "A">>)}

FewVoltAmpl == {PyInt(10), PyInt(22), PyFloat(2201, -2), PyInt(500), Garbage}

FewCurrAmpl == {PyInt(1), PyFloat(22, -1), PyFloat(22001, -4), PyInt(10), Garbage}

FewFrequencies == {PyInt(50), PyInt(20001), Garbage}

\* a member of each list in every spelling it has there, and non-members
DiscreteInputs(list) == SeqSet(list) \cup {PyInt(3), PyFloat(15, -1), Garbage, PyNone}

TCTypeInputs ==
    SeqSet(TCTypeList)
    \cup {PyStr(<<"b">>), PyStr(<<"e">>), PyStr(<<"j">>), PyStr(<<"k">>), PyStr(<<"n">>), PyStr(<<"r">>), PyStr(<<"s">>), PyStr(<<"t">>),
          PyStr(<<"X">>), PyStr(<<"K", "K">>), PyStr(<<>>), PyInt(3), PyNone}

\* temperatures at and just beyond every thermocouple interval's ends
TCTemperatureInputs ==
    {PyInt(-211), PyInt(-210), PyInt(-201), PyInt(-200), PyInt(-51), PyInt(-50),
     PyInt(99), PyInt(100), PyInt(400), PyInt(401), PyInt(1000), PyInt(1001),
     PyInt(1200), PyInt(1201), PyInt(1250), PyInt(1251), PyFloat(12500001, -4),
     PyInt(1300), PyInt(1301), PyInt(1750), PyInt(1751), PyInt(1800), PyInt(1801),
     PyStr(<<"1", "2", "5", "0">>), PyStr(<<"1", "2", "5", "1">>), Garbage, PyNone}

FewTCTypes == {PyStr(<<"K">>), PyStr(<<"j">>), PyStr(<<"X">>), PyInt(3)}

FewTCTemperatures == {PyInt(25), PyInt(1250), PyInt(1801), Garbage}

\* power voltages and currents at and just beyond every breakpoint
PowerVoltInputs ==
    {PyFloat(22, -3), PyFloat(221, -4), PyFloat(22, -2), PyFloat(2201, -4),
     PyFloat(22, -1), PyFloat(22001, -4), PyInt(21), PyInt(22), PyFloat(220001, -4),
     PyInt(220), PyFloat(2200001, -4), PyInt(230), PyInt(1050),
     PyFloat(10500001, -4), PyInt(1051), PyInt(-5), PyInt(-1050), PyInt(-1051),
     PyStr(<<"2", "1">>), Garbage}

PowerCurrInputs ==
    {PyFloat(22, -1), PyFloat(22001, -4), PyInt(10), PyInt(22), PyFloat(220001, -4),
     PyInt(23), PyInt(-1), PyInt(-22), PyInt(-23), Garbage}

\* (frequency, phase) pairs at and just beyond the ends of [45, 400] and
\* [-90, 90]
FrequencyPhaseInputs ==
    {<<PyInt(50), PyInt(5)>>, <<PyInt(45), PyInt(90)>>, <<PyInt(400), PyInt(-90)>>,
     <<PyInt(44), PyInt(5)>>, <<PyInt(401), PyInt(5)>>, <<PyInt(50), PyInt(91)>>,
     <<PyInt(50), PyInt(-91)>>, <<PyInt(401), PyInt(91)>>, <<Garbage, PyInt(5)>>}

PowerUnitInputs == {PyStr(<<"W", "A", "T", "T">>), PyStr(<<"v", "a">>), PyStr(<<"W">>), PyInt(3)}

(***************************************************************************)
(* SpecVI: the range and amplitude setters, on an instrument in any        *)
(* function and any pair of ranges.                                        *)
(***************************************************************************)
InitVI ==
    Construct(Instruments({FuncDC, FuncSIN},
                          {VoltTokens[i][2] : i \in 1..Len(VoltTokens)},
                          {CurrTokens[i][2] : i \in 1..Len(CurrTokens)}, {<<"K">>}))

NextVI ==
    \/ SetVoltageRange(VoltRangeInputs)
    \/ SetCurrentRange(CurrRangeInputs)
    \/ SetVoltageAmplitude(VoltAmplInputs)
    \/ SetCurrentAmplitude(CurrAmplInputs)
    \/ Return

SpecVI == InitVI /\ [][NextVI]_vars

(***************************************************************************)
(* SpecDiscrete: the discrete-enumerated setters.                          *)
(***************************************************************************)
\* the instrument as it is when the resource is opened
Init == Construct({[func |-> FuncDC, vrang |-> 200000, crang |-> 20000, tctype |-> <<"K">>]})

NextDiscrete ==
    \/ SetVoltageRange(VoltRangeInputs)
    \/ SetCurrentRange(CurrRangeInputs)
    \/ SetFixedResistance(DiscreteInputs(ResistanceList))
    \/ SetCapacitance(DiscreteInputs(CapacitanceList))
    \/ SetInductance(DiscreteInputs(InductanceList))
    \/ SetConductance(DiscreteInputs(ConductanceList))
    \/ SetTCType(TCTypeInputs)
    \/ Return

SpecDiscrete == Init /\ [][NextDiscrete]_vars

(***************************************************************************)
(* SpecTC: the thermocouple type and temperature, on an instrument that    *)
(* reports any type, or one the driver does not know.                      *)
(***************************************************************************)
InitTC ==
    Construct(Instruments({FuncDC}, {200000}, {20000}, {<<c>> : c \in TCLetters \cup {"X"}}))

NextTC ==
    \/ SetTCType(TCTypeInputs)
    \/ SetTCTemperature(TCTemperatureInputs)
    \/ Return

SpecTC == InitTC /\ [][NextTC]_vars

(***************************************************************************)
(* SpecCompound: the one-shot setters built from a range (or type) step    *)
(* and an amplitude (or temperature) step.                                 *)
(***************************************************************************)
InitCompound ==
    Construct(Instruments({FuncDC}, {200000, 10000000}, {20000, 200000}, {<<"K">>, <<"J">>}))

NextCompound ==
    \/ SetVoltageDc(FewVoltRanges, FewVoltAmpl)
    \/ SetCurrentDc(FewCurrRanges, FewCurrAmpl)
    \/ SetVoltageAc(FewVoltRanges, FewVoltAmpl, FewFrequencies)
    \/ SetCurrentAc(FewCurrRanges, FewCurrAmpl, FewFrequencies)
    \/ SetTC(FewTCTemperatures, FewTCTypes)
    \/ Return

SpecCompound == InitCompound /\ [][NextCompound]_vars

(***************************************************************************)
(* SpecPower: AC and DC power.                                             *)
(***************************************************************************)
InitPower == Construct(Instruments({FuncDC, FuncSIN}, {200000}, {20000}, {<<"K">>}))

NextPower ==
    \/ SetDcPower(PowerVoltInputs, PowerCurrInputs)
    \/ SetAcPower(PowerVoltInputs, PowerCurrInputs, FrequencyPhaseInputs)
    \/ GetAcPower(PowerUnitInputs)
    \/ GetDcPower(PowerUnitInputs)
    \/ GetAcPowerParameters
    \/ GetDcPowerParameters
    \/ Return

SpecPower == InitPower /\ [][NextPower]_vars

(***************************************************************************)
(* Spec: the whole facade on one driver instance, each operation on a few  *)
(* inputs.                                                                 *)
(***************************************************************************)
One(x) == {x, Garbage}

Next ==
    \/ Housekeeping
    \/ PlainGet
    \/ SetVoltageRange(One(PyStr(<<"2", "0", "V">>)))
    \/ SetCurrentRange(One(PyInt(2)))
    \/ SetVoltageAmplitude(One(PyInt(10)))
    \/ SetCurrentAmplitude(One(PyInt(1)))
    \/ SetAcvFrequency(FrequencyInputs)
    \/ SetVoltageDc(One(PyStr(<<"2", "0", "V">>)), One(PyInt(10)))
    \/ SetCurrentDc(One(PyInt(2)), One(PyInt(1)))
    \/ SetVoltageAc(One(PyStr(<<"2", "0", "V">>)), One(PyInt(10)), One(PyInt(50)))
    \/ SetCurrentAc(One(PyInt(2)), One(PyInt(1)), One(PyInt(50)))
    \/ SetFixedResistance(One(PyInt(100)))
    \/ SetArbitraryResistance(One(PyInt(47)))
    \/ SetCapacitance(One(PyStr(<<"1", "u", "f">>)))
    \/ SetInductance(One(PyFloat(19, -4)))
    \/ SetConductance(One(PyFloat(1, -9)))
    \/ SetRTDTemperature({PyInt(100), PyInt(900), PyFloat(9315, -2), Garbage},
                         {PyStr(<<"C">>), PyStr(<<"k">>), PyStr(<<"F">>), PyStr(<<"X">>), PyInt(3)})
    \/ SetTCType(One(PyStr(<<"J">>)))
    \/ SetTCTemperature(One(PyInt(1250)))
    \/ SetTC(One(PyInt(25)), One(PyStr(<<"K">>)))
    \/ SetOscilloscopeFrequency({PyInt(100), PyInt(3), Garbage})
    \/ SetOscilloscopePeriod({PyFloat(1, -8), PyInt(3), Garbage})
    \/ SetAcPower(One(PyInt(230)), One(PyInt(10)), {<<PyInt(50), PyInt(5)>>, <<PyInt(50), PyInt(91)>>})
    \/ SetDcPower(One(PyInt(21)), One(PyInt(10)))
    \/ GetAcPower(PowerUnitInputs)
    \/ GetDcPower(PowerUnitInputs)
    \/ GetAcPowerParameters
    \/ GetDcPowerParameters
    \/ CloseConnection
    \/ Return

Spec == Init /\ [][Next]_vars

(***************************************************************************)
(* What the driver is claimed to do.  Each property reads the record of    *)
(* the call that just ran.                                                 *)
(***************************************************************************)
\* the positions in the call's log of the sends of `verb`
SendsOf(verbs) ==
    {i \in 1..Len(call.log) : call.log[i].kind = "write" /\ call.log[i].verb \in verbs}

\* the replies the instrument gave to the query `verb` during the call
RepliesTo(verb) ==
    {call.log[i].reply : i \in {j \in 1..Len(call.log) :
        call.log[j].kind = "query" /\ call.log[j].verb = verb /\ call.log[j].ok}}

\* those of them that reached the bus (self.__inst.write was invoked)
WrittenOf(verbs) == {i \in SendsOf(verbs) : call.log[i].wire}

LogVerbs == [i \in 1..Len(call.log) |-> call.log[i].verb]

AmplitudeOps == {"set_voltage_amplitude", "set_current_amplitude"}

IsVolt(op) == op = "set_voltage_amplitude"

\* what C1 says of one amplitude call: `bound` the hard bound, `verb` the
\* amplitude command, `query` the range query, `range` the instrument's range
AmplitudeRule(bound, verb, query, range) ==
    LET a == ToFloat(call.args[1])
        reported == {ParseFloat(r) : r \in RepliesTo(query)}
        accepted == /\ a.ok
                    /\ -bound * Pow10(4) <= Fix(a) /\ Fix(a) <= bound * Pow10(4)
                    /\ \E R \in reported : 10 * Fix(a) <= 11 * Fix(R)
        sends == SendsOf({verb})
    IN  /\ (sends # {}) <=> accepted
        /\ \A i \in sends : sends = {i} /\ call.ret = PyBool(call.log[i].ok)
        /\ sends = {} => call.ret = PyFalse
        /\ \A R \in reported : R.ok /\ Fix(R) = range
        /\ SendsOf({"VOLT:AMPL", "CURR:AMPL"}) = sends

\* C1: set_voltage_amplitude / set_current_amplitude send the amplitude
\* command, and return its send result, exactly when the amplitude coerces to
\* a number, lies in [-1050, 1050] (resp. [-22, 22]) and is <= 1.1 * R, R
\* being the range the instrument reports in this very call (its present
\* range); otherwise they return False and send no amplitude command.  With
\* R = 20, 22 passes and 22.01 fails.
C1_AmplitudeAgainstQueriedRange ==
    /\ call.op = "set_voltage_amplitude" =>
           AmplitudeRule(1050, "VOLT:AMPL", "VOLT:RANG?", inst.vrang)
    /\ call.op = "set_current_amplitude" =>
           AmplitudeRule(22, "CURR:AMPL", "CURR:RANG?", inst.crang)
    /\ (call.op = "set_voltage_amplitude" /\ RepliesTo("VOLT:RANG?") = {<<"2", "0", ".", "0">>}) =>
           /\ call.args[1] = PyInt(22) => SendsOf({"VOLT:AMPL"}) # {}
           /\ call.args[1] = PyFloat(2201, -2) => SendsOf({"VOLT:AMPL"}) = {}

\* 22 on the 20 V range is sent, after the range was read in the same call
C1_Witness ==
    /\ call.op = "set_voltage_amplitude"
    /\ call.args = <<PyInt(22)>>
    /\ LogVerbs = <<"VOLT:RANG?", "VOLT:AMPL">>
    /\ call.log[1].reply = <<"2", "0", ".", "0">>
    /\ call.log[2].arg = <<"2", "2", ".", "0">>
    /\ call.ret = PyTrue

DiscreteOps ==
    {"set_voltage_range", "set_current_range", "set_fixed_resistance", "set_capacitance",
     "set_inductance", "set_conductance", "set_TC_type"}

\* the admissible set of a discrete setter and the command it sends
Admissible(op, x) ==
    CASE op = "set_voltage_range" -> PyIn(x, VoltRangeList)
      [] op = "set_current_range" -> PyIn(x, CurrRangeList)
      [] op = "set_fixed_resistance" -> PyIn(x, ResistanceList)
      [] op = "set_capacitance" -> PyIn(x, CapacitanceList)
      [] op = "set_inductance" -> PyIn(x, InductanceList)
      [] op = "set_conductance" -> PyIn(x, ConductanceList)
      [] op = "set_TC_type" -> x.t = "str" /\ PyIn(PyStr(Upper(x.s)), TCTypeList)

VerbOf(op) ==
    CASE op = "set_voltage_range" -> "VOLT:RANG"
      [] op = "set_current_range" -> "CURR:RANG"
      [] op = "set_fixed_resistance" -> "RES"
      [] op = "set_capacitance" -> "CAP"
      [] op = "set_inductance" -> "IND"
      [] op = "set_conductance" -> "COND"
      [] op = "set_TC_type" -> "ther:type"

\* C2: a discrete-enumerated setter given a value outside its admissible set
\* returns False and hands nothing to the transport; given a member it hands
\* over exactly one command and returns that send's result.  (Membership is
\* Python's `in`; set_TC_type tests the upper-cased letter.)
C2_DiscreteSetters ==
    call.op \in DiscreteOps =>
        IF Admissible(call.op, call.args[1])
        THEN /\ Len(call.log) = 1
             /\ call.log[1].kind = "write"
             /\ call.log[1].verb = VerbOf(call.op)
             /\ call.ret = PyBool(call.log[1].ok)
        ELSE /\ call.log = <<>>
             /\ call.ret = PyFalse

\* the listed capacitance 1E-9 was accepted and sent as one command
C2_Witness ==
    /\ call.op = "set_capacitance"
    /\ call.args = <<PyFloat(1, -9)>>
    /\ Len(call.log) = 1
    /\ call.log[1].arg = <<"1", "e", "-", "0", "9">>
    /\ call.ret = PyTrue

RangeOps == {"set_voltage_range", "set_current_range"}

RangeListOf(op) == IF op = "set_voltage_range" THEN VoltRangeList ELSE CurrRangeList

\* the other documented form of the same range: entry i of a range list is
\* the token of the number at entry i + 6
OtherForm(op, x) ==
    LET list == RangeListOf(op)
        i == CHOOSE j \in 1..Len(list) : list[j] = x
    IN  IF i <= 6 THEN list[i + 6] ELSE list[i - 6]

Documented(op, x) == \E j \in 1..Len(RangeListOf(op)) : RangeListOf(op)[j] = x

\* the same setter run now on the other form, the transport behaving alike
OnOtherForm ==
    LET oc == [j \in 1..1 |-> \A i \in 1..Len(call.log) : call.log[i].ok]
        y == OtherForm(call.op, call.args[1])
    IN  IF call.op = "set_voltage_range" THEN set_voltage_range(Begin(oc), y)
        ELSE set_current_range(Begin(oc), y)

\* C3 as stated: the numeric and the unit-suffixed form of a documented
\* range validate alike and make the setter send the identical command.
C3_IdenticalCommand ==
    (call.op \in RangeOps /\ Documented(call.op, call.args[1])) =>
        /\ call.ret = OnOtherForm.ret
        /\ LogVerbs = [i \in 1..Len(OnOtherForm.log) |-> OnOtherForm.log[i].verb]
        /\ \A i \in 1..Len(call.log) : call.log[i].arg = OnOtherForm.log[i].arg

\* C3 amended: both forms of a documented range are accepted and return the
\* same result, and each sends one command with the same verb whose argument
\* is the text of the form that was given; the two commands differ.
C3_SameVerbOwnSpelling ==
    (call.op \in RangeOps /\ Documented(call.op, call.args[1])) =>
        /\ call.ret = OnOtherForm.ret
        /\ Len(call.log) = 1 /\ Len(OnOtherForm.log) = 1
        /\ call.log[1].verb = VerbOf(call.op)
        /\ OnOtherForm.log[1].verb = VerbOf(call.op)
        /\ call.log[1].arg = Format(call.args[1])
        /\ OnOtherForm.log[1].arg = Format(OtherForm(call.op, call.args[1]))
        /\ call.log[1].arg # OnOtherForm.log[1].arg

\* '20V' was sent as 'VOLT:RANG 20V' where 20 would be sent as 'VOLT:RANG 20'
C3_Witness ==
    /\ call.op = "set_voltage_range"
    /\ call.args = <<PyStr(<<"2", "0", "V">>)>>
    /\ call.log[1].arg = <<"2", "0", "V">>
    /\ OnOtherForm.log[1].arg = <<"2", "0">>
    /\ call.ret = PyTrue

\* the per-type intervals as C4 lists them
TCIntervals ==
    { <<"J", -210, 1200>>, <<"K", -200, 1250>>, <<"T", -200, 400>>, <<"R", -50, 1750>>,
      <<"S", -50, 1750>>, <<"B", 100, 1800>>, <<"N", -200, 1300>>, <<"E", -200, 1000>> }

\* C4: set_TC_temperature(t) reads the type from the instrument in the call
\* and sends `ther t` exactly when t coerces to a number and lies in the
\* closed interval of the reported type; otherwise (also for an unknown or
\* unreadable type) it returns False and sends no `ther`.  K/1250 passes,
\* K/1251 and J/1250 fail.
C4_TemperatureAgainstReportedType ==
    call.op = "set_TC_temperature" =>
        LET t == ToFloat(call.args[1])
            types == RepliesTo("ther:type?")
            accepted == /\ t.ok
                        /\ \E y \in types, r \in TCIntervals :
                              /\ Upper(y) = <<r[1]>>
                              /\ r[2] * Pow10(4) <= Fix(t) /\ Fix(t) <= r[3] * Pow10(4)
            sends == SendsOf({"ther"})
        IN  /\ (sends # {}) <=> accepted
            /\ \A i \in sends : sends = {i} /\ call.ret = PyBool(call.log[i].ok)
            /\ sends = {} => call.ret = PyFalse
            /\ \A y \in types : y = inst.tctype
            /\ (types = {<<"K">>} /\ call.args[1] = PyInt(1250)) => sends # {}
            /\ (types = {<<"K">>} /\ call.args[1] = PyInt(1251)) => sends = {}
            /\ (types = {<<"J">>} /\ call.args[1] = PyInt(1250)) => sends = {}

\* 1250 is sent while the instrument reports type K
C4_Witness ==
    /\ call.op = "set_TC_temperature"
    /\ call.args = <<PyInt(1250)>>
    /\ LogVerbs = <<"ther:type?", "ther">>
    /\ call.log[1].reply = <<"K">>
    /\ call.log[2].arg = <<"1", "2", "5", "0", ".", "0">>
    /\ call.ret = PyTrue

PowerOps == {"set_dc_power", "set_ac_power"}

\* the breakpoint tables as C5 gives them, as the text of the range sent
TableVoltText(v) ==
    IF Fix(v) <= 220 THEN <<"0", ".", "0", "2">>
    ELSE IF Fix(v) <= 2200 THEN <<"0", ".", "2">>
    ELSE IF Fix(v) <= 22000 THEN <<"2">>
    ELSE IF Fix(v) <= 220000 THEN <<"2", "0">>
    ELSE IF Fix(v) <= 2200000 THEN <<"2", "0", "0">>
    ELSE <<"1", "0", "0", "0">>

TableCurrText(c) == IF Fix(c) <= 22000 THEN <<"2">> ELSE <<"2", "0">>

ConfigVerbs == {"func sin", "func dc", "pow:rang", "pow"}

\* C5: the pair sent in `pow:rang` is the breakpoint table's (0.02 up to
\* 0.022, 0.2 up to 0.22, 2 up to 2.2, 20 up to 22, 200 up to 220, 1000 up to
\* 1050; current 2 up to 2.2, 20 up to 22); with voltage > 1050 or current
\* > 22 the call returns False and sends no function-select, `pow:rang` or
\* `pow`.
C5_BreakpointTable ==
    call.op \in PowerOps =>
        LET v == ToFloat(call.args[1])
            c == ToFloat(call.args[2])
        IN  /\ \A i \in SendsOf({"pow:rang"}) :
                  /\ v.ok /\ c.ok
                  /\ call.log[i].arg = TableVoltText(v) \o <<",">> \o TableCurrText(c)
            /\ ((v.ok /\ Fix(v) > 1050 * Pow10(4)) \/ (c.ok /\ Fix(c) > 22 * Pow10(4))) =>
                  /\ call.ret = PyFalse
                  /\ SendsOf(ConfigVerbs) = {}

\* 22.0001 V with 2.2001 A went out as `pow:rang 200,20`
C5_Witness ==
    /\ call.op = "set_ac_power"
    /\ call.args[1] = PyFloat(220001, -4) /\ call.args[2] = PyFloat(22001, -4)
    /\ \E i \in WrittenOf({"pow:rang"}) : call.log[i].ok /\ call.log[i].arg = <<"2", "0", "0", ",", "2", "0">>

\* the current is valid: it coerces and has a range in the table
ValidCurrent == ToFloat(call.args[2]).ok /\ Fix(ToFloat(call.args[2])) <= 22 * Pow10(4)

RangeSentFor21(text) ==
    (call.op \in PowerOps /\ ToFloat(call.args[1]) = ToFloat(PyInt(21)) /\ ValidCurrent) =>
        \A i \in SendsOf({"pow:rang"}) :
            SubSeq(call.log[i].arg, 1, Len(text) + 1) = text \o <<",">>

\* C6 as stated: a requested power voltage of 21 selects the range 200.
C6_Voltage21Selects200 ==
    (call.op \in PowerOps /\ ToFloat(call.args[1]) = ToFloat(PyInt(21)) /\ ValidCurrent
     /\ Fix(ToFloat(call.args[2])) >= 0) =>
        \A i \in WrittenOf({"pow:rang"}) : SubSeq(call.log[i].arg, 1, 4) = <<"2", "0", "0", ",">>

\* C6 amended: a requested power voltage of 21 selects the range 20 (21 <=
\* 22); 200 is selected above 22, up to 220.
C6_Voltage21Selects20 ==
    /\ RangeSentFor21(<<"2", "0">>)
    /\ (call.op \in PowerOps /\ ToFloat(call.args[1]) = ToFloat(PyFloat(220001, -4))
        /\ ValidCurrent) =>
           \A i \in SendsOf({"pow:rang"}) : SubSeq(call.log[i].arg, 1, 4) = <<"2", "0", "0", ",">>

\* set_dc_power(21, 10) sent `pow:rang 20,20`
C6_Witness ==
    /\ call.op = "set_dc_power"
    /\ call.args = <<PyInt(21), PyInt(10)>>
    /\ \E i \in WrittenOf({"pow:rang"}) : call.log[i].arg = <<"2", "0", ",", "2", "0">>
    /\ call.ret = PyTrue

\* C7: a set_ac_power call that returned True sent, in this order and with
\* nothing else in between: OUTP OFF, func sin, pow:rang, pow, UNIT:PHAS DEG,
\* pow:phase, freq.
C7_AcPowerOrder ==
    (call.op = "set_ac_power" /\ call.ret = PyTrue) =>
        /\ LogVerbs = <<"OUTP OFF", "func sin", "pow:rang", "pow", "UNIT:PHAS DEG",
                        "pow:phase", "freq">>
        /\ \A i \in 1..Len(call.log) : call.log[i].kind = "write"

\* set_ac_power(230, 10, 50, 5) returned True
C7_Witness ==
    /\ call.op = "set_ac_power"
    /\ call.args = <<PyInt(230), PyInt(10), PyInt(50), PyInt(5)>>
    /\ call.ret = PyTrue
    /\ Len(call.log) = 7
    /\ call.log[3].arg = <<"1", "0", "0", "0", ",", "2", "0">>
    /\ call.log[4].arg = <<"2", "3", "0", ".", "0", ",", "1", "0", ".", "0">>

\* whether the range (for set_TC: the type) argument of a compound call
\* fails validation
RangeArgInvalid ==
    CASE call.op \in {"set_voltage_dc", "set_voltage_ac"} -> ~PyIn(call.args[1], VoltRangeList)
      [] call.op \in {"set_current_dc", "set_current_ac"} -> ~PyIn(call.args[1], CurrRangeList)
      [] call.op = "set_TC" -> ~(call.args[2].t = "str"
                                 /\ PyIn(PyStr(Upper(call.args[2].s)), TCTypeList))
      [] OTHER -> FALSE

\* C8: in set_voltage_dc, set_voltage_ac, set_current_dc, set_current_ac and
\* set_TC, when the range (type) argument fails validation the amplitude
\* (temperature) step is skipped: no VOLT:AMPL, CURR:AMPL or `ther` is sent,
\* and the call reports failure.
C8_DependentStepSkipped ==
    RangeArgInvalid =>
        /\ WrittenOf({"VOLT:AMPL", "CURR:AMPL", "ther"}) = {}
        /\ ~Truthy(call.ret)

\* C9: set_ac_power with valid voltage and current but a phase outside
\* [-90, 90] or a frequency outside [45, 400] returns False and has sent no
\* function-select, `pow:rang`, `pow`, `UNIT:PHAS DEG` or `pow:phase`.
C9_NoConfigurationOnBadPhaseOrFrequency ==
    call.op = "set_ac_power" =>
        LET v == ToFloat(call.args[1])
            c == ToFloat(call.args[2])
            f == ToFloat(call.args[3])
            ph == ToFloat(call.args[4])
            valid == /\ v.ok /\ c.ok /\ f.ok /\ ph.ok
                     /\ 0 <= Fix(v) /\ Fix(v) <= 1050 * Pow10(4)
                     /\ 0 <= Fix(c) /\ Fix(c) <= 22 * Pow10(4)
            outside == \/ Fix(ph) < -90 * Pow10(4) \/ Fix(ph) > 90 * Pow10(4)
                       \/ Fix(f) < 45 * Pow10(4) \/ Fix(f) > 400 * Pow10(4)
        IN  (valid /\ outside) =>
                /\ call.ret = PyFalse
                /\ WrittenOf({"func sin", "pow:rang", "pow", "UNIT:PHAS DEG", "pow:phase"}) = {}

\* C10: no facade operation lets an exception escape, whatever the
\* connection state and the transport's outcome.
C10_NoExceptionEscapes == ~call.exc

SetOps ==
    {"set_remote", "set_local", "set_voltage_dc", "set_voltage_range", "set_voltage_amplitude",
     "set_current_dc", "set_current_range", "set_current_amplitude", "set_voltage_ac",
     "set_current_ac", "set_acv_frequency", "set_fixed_resistance",
     "set_arbitrary_resistance", "set_capacitance", "set_inductance", "set_conductance",
     "set_RTD_temperature", "set_TC_type", "set_TC_temperature", "set_TC",
     "set_oscilloscope_frequency", "set_oscilloscope_period", "set_ac_power", "set_dc_power"}

GetOps ==
    {"get_info", "get_error", "get_error_count", "get_internal_temperature",
     "get_voltage_range", "get_voltage_amplitude", "get_current_range",
     "get_current_amplitude", "get_acv_frequency", "get_fixed_resistance",
     "get_arbitrary_resistance", "get_capacitance", "get_inductance", "get_conductance",
     "get_RTD_temperature", "get_output_status", "get_TC_type", "get_TC_temperature",
     "get_oscilloscope_frequency", "get_oscilloscope_period", "get_ac_power",
     "get_ac_power_parameters", "get_dc_power", "get_dc_power_parameters"}

\* C11: over any sequence of facade calls the connection flag changes only
\* in close_connection (a failed send or query leaves it as it was); a
\* driver that is not connected never becomes connected again, and a call
\* made while it is not connected performs no pyvisa write or query; the
\* resource's close() is invoked at most once.
C11_ConnectionLifecycle ==
    [][ /\ connected' # connected => call'.op = "close_connection"
        /\ ~connected => ~connected'
        /\ ~connected => \A i \in 1..Len(call'.log) : ~call'.log[i].wire
        /\ closes' <= 1 ]_vars

\* after the one close, set_voltage_range('20V') went to __write_data and
\* was not written to the bus
C11_Witness ==
    /\ ~connected /\ closes = 1
    /\ call.op = "set_voltage_range"
    /\ Len(call.log) = 1 /\ ~call.log[1].wire
    /\ call.ret = PyFalse

\* C12: a set_* operation that returns, returns a boolean; a get_* operation
\* that returns, returns a text (the reply or the sentinel 'error') or the
\* failure value None, never a boolean.
C12_ReturnKinds ==
    ~call.exc =>
        /\ call.op \in SetOps => call.ret.t = "bool"
        /\ call.op \in GetOps => call.ret.t \in {"str", "none"}

\* the queries of the call that carry `verb`
QueriesOf(verb) ==
    {i \in 1..Len(call.log) : call.log[i].kind = "query" /\ call.log[i].verb = verb}

\* C13: get_dc_power (expecting DC) and get_ac_power (expecting SIN) query
\* the function first; whenever the function the instrument reports is not
\* the expected one the call returns 'error' and sends neither `unit:pow`
\* nor `pow:pow?`.  get_dc_power while the instrument reports SIN returns
\* 'error'.
C13_ModeGating ==
    call.op \in {"get_dc_power", "get_ac_power"} =>
        LET expected == IF call.op = "get_dc_power" THEN <<"D", "C">> ELSE <<"S", "I", "N">>
            reported == RepliesTo("func?")
        IN  /\ call.log # <<>> /\ call.log[1].kind = "query" /\ call.log[1].verb = "func?"
            /\ \A f \in reported : f = inst.func
            /\ (\E f \in reported : Upper(f) # expected) =>
                   /\ ~call.exc
                   /\ call.ret = PyStr(<<"e", "r", "r", "o", "r">>)
                   /\ SendsOf({"unit:pow"}) = {}
                   /\ QueriesOf("pow:pow?") = {}
            /\ (call.op = "get_dc_power" /\ reported = {<<"S", "I", "N">>}) =>
                   call.ret = PyStr(<<"e", "r", "r", "o", "r">>)

\* get_dc_power('WATT') on an instrument that reported SIN returned 'error'
\* after the one query
C13_Witness ==
    /\ call.op = "get_dc_power"
    /\ call.args = <<PyStr(<<"W", "A", "T", "T">>)>>
    /\ LogVerbs = <<"func?">>
    /\ call.log[1].wire /\ call.log[1].reply = <<"S", "I", "N">>
    /\ call.ret = PyStr(<<"e", "r", "r", "o", "r">>)

\* C14: set_dc_power and set_ac_power send `pow:rang` and `pow` only if
\* -1050 <= v <= 1050 and -22 <= c <= 22; for v or c outside these closed
\* intervals, below as well as above, the call returns False and sends
\* neither command.
C14_PowerHardBounds ==
    call.op \in PowerOps =>
        LET v == ToFloat(call.args[1])
            c == ToFloat(call.args[2])
            inside == /\ v.ok /\ -1050 * Pow10(4) <= Fix(v) /\ Fix(v) <= 1050 * Pow10(4)
                      /\ c.ok /\ -22 * Pow10(4) <= Fix(c) /\ Fix(c) <= 22 * Pow10(4)
        IN  /\ WrittenOf({"pow:rang", "pow"}) # {} => inside
            /\ (v.ok /\ c.ok /\ ~inside) =>
                   /\ call.ret = PyFalse
                   /\ WrittenOf({"pow:rang", "pow"}) = {}

====
